---- MODULE Spec2Model ----
(***************************************************************************)
(* Model of the SwimForge Garmin Connect microservice                      *)
(* (garmin-service/main.py): the in-memory session store, the pending-MFA  *)
(* store, the token files and the HTTP handlers that act on them.          *)
(*                                                                         *)
(* Every handler is an `async def` whose body contains no suspension point *)
(* around the calls to the Garmin client (client.login, resume_login and   *)
(* get_activities are plain blocking calls), so one handler runs to        *)
(* completion before the next starts: each handler is one action.          *)
(* SpecOverlap is the same service with the calls of login and             *)
(* complete_mfa to the Garmin client as points where other requests are    *)
(* served; calls holds the handler that is inside such a call.             *)
(*                                                                         *)
(* A handler step leaves its response in resp; the step Reply hands the    *)
(* response to the caller and the service waits for the next request.      *)
(*                                                                         *)
(* Time is the wall clock in whole seconds.  An exception raised by the    *)
(* Garmin client is modelled by the set of marker substrings its message   *)
(* contains, which is all the handlers look at.                            *)
(***************************************************************************)
EXTENDS Integers, FiniteSets, Sequences, TLC

VARIABLES sessions, pending_mfa, tokens, now, resp, calls

vars == <<sessions, pending_mfa, tokens, now, resp, calls>>

\* ---------------------------------------------------------------- bounds
\* The clock stops advancing at MaxNow.
MaxNow == 601

\* ------------------------------------------------------------- constants
\* cleanup_expired_mfa: "(now - created_at).total_seconds() > 600"
CLEANUP_TTL == 600
\* complete_mfa: "(datetime.now() - created_at).total_seconds() > 600"
MFA_TTL == 600

None == "None"
\* "last_sync": None
NoSync == 0 - 1

Users == {"u1", "u2"}
Emails == {"a@x.com"}

API_SECRET_KEY == "swimforge-garmin-secret-key"
\* The X-API-Key header of a request: the secret, another value, or absent.
Keys == {API_SECRET_KEY, "wrong-key", None}

\* The opaque resume states client.login() can hand back with "needs_mfa".
MfaStates == {"m1"}

\* Clock advances between requests: one second short of, exactly, and one
\* second past the ten-minute limit, so that a pending entry is read at the
\* ages 0, 1, 2, 599, 600 and 601.
Steps == {MFA_TTL - 1, MFA_TTL, MFA_TTL + 1}

\* Messages of the exceptions the Garmin client raises, as the set of the
\* marker substrings the message contains.
ErrMsgs == { {"401", "Unauthorized"}, {"403"}, {"Invalid"}, {"429"},
             {"MFA"}, {"503"}, {} }

\* Outcomes of client.login() (return_on_mfa=True): the pair
\* ("needs_mfa", mfa_state), an exception, or any other return value, which
\* login takes for a completed login ("ok").  The garminconnect library is
\* taken to be installed, so the import in login does not fail.
LoginOutcomes ==
    {[kind |-> "ok", mfa_state |-> None, msg |-> {}]}
    \cup {[kind |-> "needs_mfa", mfa_state |-> m, msg |-> {}] : m \in MfaStates}
    \cup {[kind |-> "raise", mfa_state |-> None, msg |-> e] : e \in ErrMsgs}

\* Outcomes of client.resume_login() and of client.get_activities().
CallOutcomes ==
    {[kind |-> "ok", msg |-> {}]}
    \cup {[kind |-> "raise", msg |-> e] : e \in ErrMsgs}

\* ---------------------------------------------------------------- helpers
\* get_token_path(user_id) is one file per user: the token store is the set
\* of user ids whose file exists.
get_token_path(u) == u

\* Garmin(email=..., password=...): the client handle of a login attempt.
Garmin(email) == [email |-> email]

\* dict operations: "k in d", "del d[k]", "d[k] = v"
Has(d, k) == k \in DOMAIN d
Del(d, k) == [x \in DOMAIN d \ {k} |-> d[x]]
Put(d, k, v) == [x \in DOMAIN d \cup {k} |-> IF x = k THEN v ELSE d[x]]

\* Mutant of CleanupExpired: an entry is swept on reaching the limit.
CleanupExpired_AtTtl(created_at, t) == (t - created_at) >= CLEANUP_TTL

\* Mutant of CleanupExpired: no entry is ever found expired.
CleanupExpired_Never(created_at, t) == FALSE

\* The expiry test of cleanup_expired_mfa.
CleanupExpired(created_at, t) == (t - created_at) > CLEANUP_TTL

\* Mutant of cleanup_expired_mfa: the sweep empties the store.
cleanup_expired_mfa_All(p, t) == << >>

\* cleanup_expired_mfa(): the pending store with the expired entries deleted.
cleanup_expired_mfa(p, t) ==
    [u \in {v \in DOMAIN p : ~CleanupExpired(p[v].created_at, t)} |-> p[u]]

\* Mutant of MfaExpired: the entry expires on reaching the limit.
MfaExpired_AtTtl(created_at, t) == (t - created_at) >= MFA_TTL

\* The expiry test of complete_mfa.
MfaExpired(created_at, t) == (t - created_at) > MFA_TTL

\* Age of u's pending entry as the handler reads it (-1: no entry).
Age(p, u, t) == IF Has(p, u) THEN t - p[u].created_at ELSE -1

\* login's "except Exception" classification of str(e).
LoginErrorStatus(msg) ==
    IF "401" \in msg \/ "Unauthorized" \in msg \/ "Authentication" \in msg
    THEN 401
    ELSE IF "MFA" \in msg \/ "needs_mfa" \in msg
         THEN 400
         ELSE 500

\* complete_mfa's classification of str(mfa_error).
MfaErrorStatus(msg) ==
    IF "401" \in msg \/ "403" \in msg \/ "Invalid" \in msg
    THEN 401
    ELSE IF "429" \in msg
         THEN 429
         ELSE 500

\* The session entry login and complete_mfa store.
NewSession(client, email, display_name) ==
    [client |-> client, email |-> email, display_name |-> display_name,
     last_sync |-> NoSync]

\* "try: display_name = client.display_name / except: display_name = email"
DisplayName(client, email, dnOk) ==
    IF dnOk THEN "garmin-name" ELSE email

\* The handler made no call to the Garmin client.
NoCall == [kind |-> "none", msg |-> {}]

\* No response is outstanding: the service waits for a request.
\* A StatusResponse with only its defaults; the body of every response
\* that is not a StatusResponse.
NoBody ==
    [connected |-> FALSE, email |-> None, last_sync |-> NoSync,
     display_name |-> None]

Idle ==
    [op |-> "idle", user |-> None, status |-> 0, kind |-> None,
     remote |-> {}, out |-> NoCall, swallowed |-> {},
     hadSession |-> FALSE, hadPending |-> FALSE, hadToken |-> FALSE,
     age |-> 0 - 1, body |-> NoBody]

\* The outcome of a call to the Garmin client as the handler got it.
Got(out) == [kind |-> out.kind, msg |-> out.msg]

\* The response of a handler: the endpoint and the user id of the request,
\* the HTTP status, what the body or the detail says, the Garmin client
\* calls the handler made with the outcome it got, and the exceptions it
\* swallowed (each leaves a log line); with it, what the handler found on
\* entry for that user: a session, a pending entry and its age, a token
\* file.
Response(op, u, status, kind, remote, out, swallowed) ==
    [op |-> op, user |-> u, status |-> status, kind |-> kind,
     remote |-> remote, out |-> out, swallowed |-> swallowed,
     hadSession |-> Has(sessions, u),
     hadPending |-> Has(pending_mfa, u),
     hadToken |-> get_token_path(u) \in tokens,
     age |-> Age(pending_mfa, u, now),
     body |-> NoBody]

\* Mutant of KeyOk: a request without the X-API-Key header passes.
KeyOk_AbsentPasses(key) == key = API_SECRET_KEY \/ key = None

\* verify_api_key
KeyOk(key) == key = API_SECRET_KEY

\* verify_api_key raising HTTP 401 "Invalid API key": the handler does not
\* run.
Rejected(op, u) ==
    /\ resp' = Response(op, u, 401, "InvalidApiKey", {}, NoCall, {})
    /\ UNCHANGED <<sessions, pending_mfa, tokens, now>>

\* The pending entry of a handler that read none.
NoEntry ==
    [client |-> Garmin(None), mfa_state |-> None, email |-> None,
     created_at |-> 0 - 1]

\* No handler is inside a call to the Garmin client.
NoFlight ==
    [op |-> "none", user |-> None, email |-> None, entry |-> NoEntry,
     swallowed |-> {}, loggedOut |-> FALSE]

\* What a handler that is inside client.login() or client.resume_login()
\* holds in its locals (calls), and what was served for its user since it
\* went in: loggedOut says that a logout of the user returned and no login
\* of the user was taken after it.  A handler served start to end leaves
\* the handler in the call as it is.
Overtake ==
    calls' =
      IF calls # NoFlight /\ resp'.user = calls.user
         /\ resp'.kind # "InvalidApiKey" /\ resp'.op \in {"logout", "login"}
      THEN [calls EXCEPT !.loggedOut = (resp'.op = "logout")]
      ELSE calls

\* ------------------------------------------------------------------- Init
Init ==
    /\ sessions = << >>
    /\ pending_mfa = << >>
    /\ tokens = {}
    /\ now = 0
    /\ resp = Idle
    /\ calls = NoFlight

\* ---------------------------------------------------------------- actions
\* GET /
Root ==
    /\ resp = Idle
    /\ resp' = Response("root", None, 200, "ok", {}, NoCall, {})
    /\ UNCHANGED <<sessions, pending_mfa, tokens, now>>
    /\ Overtake

\* The dict health_check returns, built after its cleanup_expired_mfa().
HealthBody ==
    [status |-> "healthy",
     active_sessions |-> Cardinality(DOMAIN sessions),
     pending_mfa |->
       Cardinality(DOMAIN cleanup_expired_mfa(pending_mfa, now))]

\* GET /health (the one endpoint with state that has no API key dependency)
Health ==
    /\ resp = Idle
    /\ pending_mfa' = cleanup_expired_mfa(pending_mfa, now)
    /\ resp' = [Response("health", None, 200, "healthy", {}, NoCall, {})
                EXCEPT !.body = HealthBody]
    /\ UNCHANGED <<sessions, tokens, now>>
    /\ Overtake

\* Mutant of Unlink: the file is left where it is.
Unlink_Skips(tk, u, unlinkOk) == tk

\* The token files after "token_path.unlink()".
Unlink(tk, u, unlinkOk) ==
    IF unlinkOk THEN tk \ {get_token_path(u)} ELSE tk

\* The exceptions of the file system a handler swallowed.
Swallowed(unlinkOk, saveOk, dnOk) ==
    (IF unlinkOk THEN {} ELSE {"unlink"})
    \cup (IF saveOk THEN {} ELSE {"dump"})
    \cup (IF dnOk THEN {} ELSE {"display_name"})

\* The pending store after login's cleanup_expired_mfa() and
\* "if user_id in pending_mfa: del pending_mfa[user_id]".
LoginClearPending(u) ==
    Del(cleanup_expired_mfa(pending_mfa, now), u)

\* Mutant of LoginSessionsBefore: login stores a session for the user before
\* it calls the Garmin client.
LoginSessionsBefore_Placeholder(u) ==
    Put(sessions, u, NewSession(Garmin(None), None, None))

\* The session store when login reaches client.login(): login leaves the
\* store as it finds it.
LoginSessionsBefore(u) == sessions

\* Mutant of SaveTokens: a failed dump leaves a file behind.
SaveTokens_Partial(tk, u, saveOk) == tk \cup {get_token_path(u)}

\* Mutant of SaveTokens: the token file is never written.
SaveTokens_Skips(tk, u, saveOk) == tk

\* The token files after "try: client.garth.dump(token_path) / except".
SaveTokens(tk, u, saveOk) ==
    IF saveOk THEN tk \cup {get_token_path(u)} ELSE tk

\* The pending entry login stores on "needs_mfa".
NewPending(client, mfa_state, email, t) ==
    [client |-> client, mfa_state |-> mfa_state, email |-> email,
     created_at |-> t]

\* What login's HTTPException says, by its status.
LoginErrorKind(status) ==
    CASE status = 401 -> "InvalidCredentials"
      [] status = 400 -> "MfaNotHandled"
      [] OTHER -> "LoginFailed"

\* login from "cleanup_expired_mfa()" on, where deleting the token file
\* succeeds or fails as unlinkOk says.
LoginBody(u, email, unlinkOk) ==
    LET tk == Unlink(tokens, u, unlinkOk)
        pm == LoginClearPending(u)
        ss == LoginSessionsBefore(u)
        client == Garmin(email)
    IN  \E out \in LoginOutcomes :
          CASE out.kind = "needs_mfa" ->
                 /\ pending_mfa' =
                      Put(pm, u, NewPending(client, out.mfa_state, email, now))
                 /\ tokens' = tk
                 /\ sessions' = ss
                 /\ resp' = Response("login", u, 200, "MfaRequired",
                                     {"login"}, Got(out),
                                     Swallowed(unlinkOk, TRUE, TRUE))
            [] out.kind = "ok" ->
                 \E saveOk \in BOOLEAN, dnOk \in BOOLEAN :
                   /\ pending_mfa' = pm
                   /\ tokens' = SaveTokens(tk, u, saveOk)
                   /\ sessions' =
                        Put(ss, u, NewSession(client, email,
                                              DisplayName(client, email, dnOk)))
                   /\ resp' = Response("login", u, 200, "Authenticated",
                                       {"login"}, Got(out),
                                       Swallowed(unlinkOk, saveOk, dnOk))
            [] out.kind = "raise" ->
                 /\ pending_mfa' = pm
                 /\ tokens' = tk
                 /\ sessions' = ss
                 /\ resp' = Response("login", u, LoginErrorStatus(out.msg),
                                     LoginErrorKind(LoginErrorStatus(out.msg)),
                                     {"login"}, Got(out),
                                     Swallowed(unlinkOk, TRUE, TRUE))

\* POST /auth/login
Login(u, email, key) ==
    /\ resp = Idle
    /\ IF ~KeyOk(key)
       THEN Rejected("login", u)
       ELSE /\ UNCHANGED now
            /\ IF get_token_path(u) \in tokens
               THEN \E unlinkOk \in BOOLEAN : LoginBody(u, email, unlinkOk)
               ELSE LoginBody(u, email, TRUE)
    /\ Overtake

\* Mutant of MfaDelPending: the entry is left in the store.
MfaDelPending_Keeps(u) == pending_mfa

\* The pending store after complete_mfa's "del pending_mfa[user_id]": of an
\* expired entry, on a rate-limit error, and after a completed resume.
MfaDelPending(u) == Del(pending_mfa, u)

\* Mutant of MfaKeepPending: every error of resume_login drops the entry.
MfaKeepPending_Drops(u) == Del(pending_mfa, u)

\* The pending store after an error of resume_login that is taken for an
\* invalid code, or that is not recognised: the entry stays.
MfaKeepPending(u) == pending_mfa

\* What complete_mfa's HTTPException says, by its status.
MfaErrorKind(status) ==
    CASE status = 401 -> "InvalidMfaCode"
      [] status = 429 -> "RateLimited"
      [] OTHER -> "MfaFailed"

\* POST /auth/mfa
CompleteMfa(u, key) ==
    /\ resp = Idle
    /\ IF ~KeyOk(key)
       THEN Rejected("mfa", u)
       ELSE
         /\ UNCHANGED now
         /\ IF ~Has(pending_mfa, u)
            THEN /\ resp' = Response("mfa", u, 400, "ChallengeNotFound",
                                     {}, NoCall, {})
                 /\ UNCHANGED <<sessions, pending_mfa, tokens>>
            ELSE
              LET mfa_session == pending_mfa[u]
                  client == mfa_session.client
                  email == mfa_session.email
              IN  IF MfaExpired(mfa_session.created_at, now)
                  THEN /\ pending_mfa' = MfaDelPending(u)
                       /\ resp' = Response("mfa", u, 400, "ChallengeExpired",
                                           {}, NoCall, {})
                       /\ UNCHANGED <<sessions, tokens>>
                  ELSE
                    \E out \in CallOutcomes :
                      IF out.kind = "raise"
                      THEN /\ pending_mfa' =
                                IF MfaErrorStatus(out.msg) = 429
                                THEN MfaDelPending(u)
                                ELSE MfaKeepPending(u)
                           /\ resp' = Response("mfa", u,
                                        MfaErrorStatus(out.msg),
                                        MfaErrorKind(MfaErrorStatus(out.msg)),
                                        {"resume"}, Got(out), {})
                           /\ UNCHANGED <<sessions, tokens>>
                      ELSE \E saveOk \in BOOLEAN, dnOk \in BOOLEAN :
                           /\ pending_mfa' = MfaDelPending(u)
                           /\ tokens' = SaveTokens(tokens, u, saveOk)
                           /\ sessions' =
                                Put(sessions, u,
                                    NewSession(client, email,
                                        DisplayName(client, email, dnOk)))
                           /\ resp' = Response("mfa", u, 200, "Authenticated",
                                               {"resume"}, Got(out),
                                               Swallowed(TRUE, saveOk, dnOk))
    /\ Overtake

\* GET /auth/mfa-status/{user_id}
MfaStatus(u, key) ==
    /\ resp = Idle
    /\ IF ~KeyOk(key)
       THEN Rejected("mfa-status", u)
       ELSE /\ pending_mfa' = cleanup_expired_mfa(pending_mfa, now)
            /\ resp' = Response("mfa-status", u, 200,
                                IF Has(pending_mfa', u) THEN "pending"
                                ELSE "not-pending", {}, NoCall, {})
            /\ UNCHANGED <<sessions, tokens, now>>
    /\ Overtake

\* The session store after logout's "if user_id in sessions: del ...".
LogoutSessions(u) == Del(sessions, u)

\* Mutant of LogoutPending: logout forgets the pending store.
LogoutPending_Keeps(u) == pending_mfa

\* The pending store after logout's "if user_id in pending_mfa: del ...".
LogoutPending(u) == Del(pending_mfa, u)

\* Mutant of LogoutTokens: logout empties the token directory.
LogoutTokens_All(u, unlinkOk) == IF unlinkOk THEN {} ELSE tokens

\* The token files after logout's "token_path.unlink(missing_ok=True)".
LogoutTokens(u, unlinkOk) == Unlink(tokens, u, unlinkOk)

\* POST /auth/logout
Logout(u, key) ==
    /\ resp = Idle
    /\ IF ~KeyOk(key)
       THEN Rejected("logout", u)
       ELSE \E unlinkOk \in (IF get_token_path(u) \in tokens
                             THEN BOOLEAN ELSE {TRUE}) :
              /\ sessions' = LogoutSessions(u)
              /\ pending_mfa' = LogoutPending(u)
              /\ tokens' = LogoutTokens(u, unlinkOk)
              /\ resp' = Response("logout", u, 200, "ok", {}, NoCall,
                                  Swallowed(unlinkOk, TRUE, TRUE))
              /\ UNCHANGED now
    /\ Overtake

\* What get_status reports: the session's data, "(Token salvato)" with
\* connected=True, or connected=False.
StatusKind(u) ==
    IF ~Has(sessions, u)
    THEN IF get_token_path(u) \in tokens THEN "TokenSaved" ELSE "NotConnected"
    ELSE "Connected"

\* Mutant of StatusBody: the token file is not looked at.
StatusBody_NoProbe(u) ==
    IF ~Has(sessions, u)
    THEN NoBody
    ELSE [connected |-> TRUE, email |-> sessions[u].email,
          last_sync |-> sessions[u].last_sync,
          display_name |-> sessions[u].display_name]

\* The StatusResponse get_status returns.
StatusBody(u) ==
    IF ~Has(sessions, u)
    THEN IF get_token_path(u) \in tokens
         THEN [connected |-> TRUE, email |-> None, last_sync |-> NoSync,
               display_name |-> "(Token salvato)"]
         ELSE NoBody
    ELSE [connected |-> TRUE, email |-> sessions[u].email,
          last_sync |-> sessions[u].last_sync,
          display_name |-> sessions[u].display_name]

\* Mutant of Status: the handler sweeps the pending store as get_mfa_status does.
Status_Sweeps(u, key) ==
    /\ resp = Idle
    /\ IF ~KeyOk(key)
       THEN Rejected("status", u)
       ELSE /\ resp' = [Response("status", u, 200, StatusKind(u),
                                 {}, NoCall, {})
                        EXCEPT !.body = StatusBody(u)]
            /\ pending_mfa' = cleanup_expired_mfa(pending_mfa, now)
            /\ UNCHANGED <<sessions, tokens, now>>
    /\ Overtake

\* GET /auth/status/{user_id}
Status(u, key) ==
    /\ resp = Idle
    /\ IF ~KeyOk(key)
       THEN Rejected("status", u)
       ELSE /\ resp' = [Response("status", u, 200, StatusKind(u),
                                 {}, NoCall, {})
                        EXCEPT !.body = StatusBody(u)]
            /\ UNCHANGED <<sessions, pending_mfa, tokens, now>>
    /\ Overtake

\* get_garmin_client's "return None": a handle that is no client.
NoClient == [email |-> None]

\* sessions.get(user_id)["client"], or None
get_garmin_client(u) ==
    IF Has(sessions, u) THEN sessions[u].client ELSE NoClient

\* The session store after get_swimming_activities caught an exception of
\* client.get_activities(): the handler logs it and raises HTTP 500.
FetchFailedSessions(u, msg) == sessions

\* The status get_swimming_activities gives an exception of the client.
FetchErrorStatus(msg) == 500

\* GET /activities/swimming/{user_id}
GetSwimmingActivities(u, key) ==
    /\ resp = Idle
    /\ IF ~KeyOk(key)
       THEN Rejected("fetch", u)
       ELSE
         /\ UNCHANGED <<pending_mfa, tokens, now>>
         /\ IF get_garmin_client(u) = NoClient
            THEN /\ resp' = Response("fetch", u, 401, "NotAuthenticated",
                                     {}, NoCall, {})
                 /\ UNCHANGED sessions
            ELSE \E out \in CallOutcomes :
                   IF out.kind = "raise"
                   THEN /\ sessions' = FetchFailedSessions(u, out.msg)
                        /\ resp' = Response("fetch", u,
                                     FetchErrorStatus(out.msg),
                                     "FetchFailed",
                                     {"fetch"}, Got(out), {})
                   ELSE /\ UNCHANGED sessions
                        /\ resp' = Response("fetch", u, 200, "ok",
                                            {"fetch"}, Got(out), {})
    /\ Overtake

\* "if user_id in sessions: sessions[user_id]['last_sync'] = now"
TouchLastSync(u, t) ==
    IF Has(sessions, u)
    THEN [sessions EXCEPT ![u].last_sync = t]
    ELSE sessions

\* POST /sync: the fetch is get_swimming_activities, whose HTTPException
\* sync_activities passes on.
SyncActivities(u, key) ==
    /\ resp = Idle
    /\ IF ~KeyOk(key)
       THEN Rejected("sync", u)
       ELSE
         /\ UNCHANGED <<pending_mfa, tokens, now>>
         /\ IF get_garmin_client(u) = NoClient
            THEN /\ resp' = Response("sync", u, 401, "NotAuthenticated",
                                     {}, NoCall, {})
                 /\ UNCHANGED sessions
            ELSE \E out \in CallOutcomes :
                   IF out.kind = "raise"
                   THEN /\ sessions' = FetchFailedSessions(u, out.msg)
                        /\ resp' = Response("sync", u,
                                     FetchErrorStatus(out.msg),
                                     "FetchFailed",
                                     {"fetch"}, Got(out), {})
                   ELSE /\ sessions' = TouchLastSync(u, now)
                        /\ resp' = Response("sync", u, 200, "ok",
                                            {"fetch"}, Got(out), {})
    /\ Overtake

\* lifespan: at shutdown both stores are cleared; the token files stay on
\* disk for the next run of the service.
Restart ==
    /\ resp = Idle
    /\ calls = NoFlight
    /\ sessions' = << >>
    /\ pending_mfa' = << >>
    /\ UNCHANGED <<tokens, now, resp, calls>>

\* The wall clock advances between two requests.
Tick(d) ==
    /\ resp = Idle
    /\ now + d <= MaxNow
    /\ now' = now + d
    /\ UNCHANGED <<sessions, pending_mfa, tokens, resp, calls>>

\* The response goes back to the caller.
Reply ==
    /\ resp # Idle
    /\ resp' = Idle
    /\ UNCHANGED <<sessions, pending_mfa, tokens, now, calls>>

\* ------------------------------------------------------------------- Next
Next ==
    \/ Root
    \/ Health
    \/ \E u \in Users, email \in Emails, key \in Keys : Login(u, email, key)
    \/ \E u \in Users, key \in Keys : CompleteMfa(u, key)
    \/ \E u \in Users, key \in Keys : MfaStatus(u, key)
    \/ \E u \in Users, key \in Keys : Logout(u, key)
    \/ \E u \in Users, key \in Keys : Status(u, key)
    \/ \E u \in Users, key \in Keys : GetSwimmingActivities(u, key)
    \/ \E u \in Users, key \in Keys : SyncActivities(u, key)
    \/ Restart
    \/ \E d \in Steps : Tick(d)
    \/ Reply

Spec == Init /\ [][Next]_vars

\* The service answers every request it took, and health probes keep
\* coming: a probe can be served whenever the service is idle.
SpecLive == Spec /\ WF_vars(Reply) /\ SF_vars(Health)

\* The service on a file system where deleting a token file never fails:
\* no handler has an exception of unlink() to swallow.
SpecUnlinkSucceeds ==
    Init /\ [][Next /\ "unlink" \notin resp'.swallowed]_vars

\* ------------------------------------------------ calls that are overtaken
\* The handlers again, for a service in which a call to the Garmin client
\* is a point where other requests are served (the handlers run in worker
\* threads, or the client is awaited): login and complete_mfa up to the
\* call, and from its return on.  One handler at a time is in a call.

\* login up to client.login(): the sweep, the token file deleted, the
\* user's pending entry deleted, the client made.
BeginLogin(u, email) ==
    /\ resp = Idle
    /\ calls = NoFlight
    /\ \E unlinkOk \in (IF get_token_path(u) \in tokens
                        THEN BOOLEAN ELSE {TRUE}) :
         /\ tokens' = Unlink(tokens, u, unlinkOk)
         /\ calls' = [NoFlight EXCEPT !.op = "login", !.user = u,
                                      !.email = email,
                                      !.swallowed =
                                        Swallowed(unlinkOk, TRUE, TRUE)]
    /\ pending_mfa' = LoginClearPending(u)
    /\ UNCHANGED <<sessions, now, resp>>

\* login from the return of client.login() on, on the stores as they are
\* by then.
EndLogin ==
    /\ resp = Idle
    /\ calls.op = "login"
    /\ LET u == calls.user
           email == calls.email
           client == Garmin(email)
       IN  \E out \in LoginOutcomes :
             CASE out.kind = "needs_mfa" ->
                    /\ pending_mfa' =
                         Put(pending_mfa, u,
                             NewPending(client, out.mfa_state, email, now))
                    /\ UNCHANGED <<sessions, tokens>>
                    /\ resp' = Response("login", u, 200, "MfaRequired",
                                        {"login"}, Got(out), calls.swallowed)
               [] out.kind = "ok" ->
                    \E saveOk \in BOOLEAN, dnOk \in BOOLEAN :
                      /\ tokens' = SaveTokens(tokens, u, saveOk)
                      /\ sessions' =
                           Put(sessions, u,
                               NewSession(client, email,
                                          DisplayName(client, email, dnOk)))
                      /\ UNCHANGED pending_mfa
                      /\ resp' = Response("login", u, 200, "Authenticated",
                                          {"login"}, Got(out),
                                          calls.swallowed
                                            \cup Swallowed(TRUE, saveOk, dnOk))
               [] out.kind = "raise" ->
                    /\ UNCHANGED <<sessions, pending_mfa, tokens>>
                    /\ resp' = Response("login", u, LoginErrorStatus(out.msg),
                                        LoginErrorKind(LoginErrorStatus(out.msg)),
                                        {"login"}, Got(out), calls.swallowed)
    /\ calls' = NoFlight
    /\ UNCHANGED now

\* complete_mfa up to client.resume_login(): the entry is there and not
\* expired, and its client, mfa_state and email are in the locals.
BeginMfa(u) ==
    /\ resp = Idle
    /\ calls = NoFlight
    /\ Has(pending_mfa, u)
    /\ ~MfaExpired(pending_mfa[u].created_at, now)
    /\ calls' = [NoFlight EXCEPT !.op = "mfa", !.user = u,
                                 !.email = pending_mfa[u].email,
                                 !.entry = pending_mfa[u]]
    /\ UNCHANGED <<sessions, pending_mfa, tokens, now, resp>>

\* complete_mfa's last "except Exception": HTTP 500 "Errore imprevisto",
\* here for the KeyError of "del pending_mfa[user_id]" on a missing entry.
UnexpectedError(u, out) ==
    /\ resp' = Response("mfa", u, 500, "UnexpectedError",
                        {"resume"}, Got(out), {})
    /\ UNCHANGED <<sessions, pending_mfa, tokens>>

\* complete_mfa from the return of client.resume_login() on, on the stores
\* as they are by then: "del pending_mfa[user_id]" deletes whatever entry
\* the user has and raises KeyError when there is none; the session is made
\* from the client and email in the locals.
EndMfa ==
    /\ resp = Idle
    /\ calls.op = "mfa"
    /\ LET u == calls.user
           client == calls.entry.client
           email == calls.entry.email
       IN  \E out \in CallOutcomes :
             IF out.kind = "raise"
             THEN IF MfaErrorStatus(out.msg) = 429 /\ ~Has(pending_mfa, u)
                  THEN UnexpectedError(u, out)
                  ELSE /\ pending_mfa' =
                            IF MfaErrorStatus(out.msg) = 429
                            THEN MfaDelPending(u)
                            ELSE MfaKeepPending(u)
                       /\ resp' = Response("mfa", u,
                                    MfaErrorStatus(out.msg),
                                    MfaErrorKind(MfaErrorStatus(out.msg)),
                                    {"resume"}, Got(out), {})
                       /\ UNCHANGED <<sessions, tokens>>
             ELSE IF ~Has(pending_mfa, u)
                  THEN UnexpectedError(u, out)
                  ELSE \E saveOk \in BOOLEAN, dnOk \in BOOLEAN :
                         /\ pending_mfa' = MfaDelPending(u)
                         /\ tokens' = SaveTokens(tokens, u, saveOk)
                         /\ sessions' =
                              Put(sessions, u,
                                  NewSession(client, email,
                                      DisplayName(client, email, dnOk)))
                         /\ resp' = Response("mfa", u, 200, "Authenticated",
                                             {"resume"}, Got(out),
                                             Swallowed(TRUE, saveOk, dnOk))
    /\ calls' = NoFlight
    /\ UNCHANGED now

NextOverlap ==
    \/ Next
    \/ \E u \in Users, email \in Emails : BeginLogin(u, email)
    \/ EndLogin
    \/ \E u \in Users : BeginMfa(u)
    \/ EndMfa

SpecOverlap == Init /\ [][NextOverlap]_vars

\* ----------------------------------------------------------------- claims
\* The handler op ran (the API key was accepted) and resp is its response.
Ran(op) == resp.op = op /\ resp.kind # "InvalidApiKey"

\* What the messages of the Garmin client's exceptions mean: a rejected
\* code or credential, a rate limit.
InvalidCodeMsgs == { {"401", "Unauthorized"}, {"403"}, {"Invalid"} }
RateLimitMsgs == { {"429"} }
CredentialInvalidMsgs == { {"401", "Unauthorized"} }

\* C1: in every reachable state no user id has both a session and a pending
\* MFA entry.
C1_AtMostOne ==
    \A u \in Users : ~(Has(sessions, u) /\ Has(pending_mfa, u))

\* C2: a login whose client.login() raised (rejected, unavailable) made the
\* remote call, and so ends, with no session, no pending entry and no token
\* file left for its user.
C2_LoginStartsFresh ==
    (Ran("login") /\ resp.out.kind = "raise")
    => /\ ~Has(sessions, resp.user)
       /\ ~Has(pending_mfa, resp.user)
       /\ get_token_path(resp.user) \notin tokens

\* C3 as stated: a pending entry is resumed at every age below 600 seconds
\* and is reported expired, without a resume call, and purged at every age
\* of 600 seconds or more.
C3_ExpiredFromTtl ==
    (Ran("mfa") /\ resp.hadPending)
    => IF resp.age < 600
       THEN "resume" \in resp.remote
       ELSE /\ resp.kind = "ChallengeExpired"
            /\ resp.remote = {}
            /\ ~Has(pending_mfa, resp.user)

\* C3 amended: a pending entry is resumed at every age up to and including
\* 600 seconds, and is reported expired, without a resume call, and purged
\* at every age above 600 seconds.
C3_ExpiredAfterTtl ==
    (Ran("mfa") /\ resp.hadPending)
    => IF resp.age <= 600
       THEN "resume" \in resp.remote
       ELSE /\ resp.kind = "ChallengeExpired"
            /\ resp.status = 400
            /\ resp.remote = {}
            /\ ~Has(pending_mfa, resp.user)

\* C3 witness: a code submitted exactly 600 seconds after the entry was
\* created reached resume_login.
C3_Witness ==
    Ran("mfa") /\ resp.hadPending /\ resp.age = 600 /\ "resume" \in resp.remote

\* C4 as stated: a submitted code whose resume succeeds answers 200
\* Authenticated and leaves a session, no pending entry and a written token
\* file.
C4_ResumeWritesToken ==
    (Ran("mfa") /\ resp.out.kind = "ok")
    => /\ resp.status = 200 /\ resp.kind = "Authenticated"
       /\ Has(sessions, resp.user)
       /\ ~Has(pending_mfa, resp.user)
       /\ get_token_path(resp.user) \in tokens

\* C4 amended: a submitted code whose resume succeeds answers 200
\* Authenticated and leaves a session and no pending entry; the token file
\* is written unless garth.dump raised, and then the files are as before.
C4_ResumeAuthenticates ==
    (Ran("mfa") /\ resp.out.kind = "ok")
    => /\ resp.status = 200 /\ resp.kind = "Authenticated"
       /\ resp.hadPending /\ resp.age <= MFA_TTL
       /\ Has(sessions, resp.user)
       /\ ~Has(pending_mfa, resp.user)
       /\ IF "dump" \in resp.swallowed
          THEN (get_token_path(resp.user) \in tokens) = resp.hadToken
          ELSE get_token_path(resp.user) \in tokens

\* C4 witness: a resume succeeded and its token file was written.
C4_Witness ==
    /\ Ran("mfa") /\ resp.out.kind = "ok" /\ ~resp.hadToken
    /\ Has(sessions, resp.user)
    /\ get_token_path(resp.user) \in tokens

\* C5: a resume that fails as an invalid code answers 401 and changes
\* neither store (the pending entry keeps its resume state and creation
\* time, no session is created); a resume that fails as rate-limited
\* answers 429 and removes the pending entry of the user, and no other.
C5_InvalidCodeKeepsPending ==
    [][(resp'.op = "mfa" /\ resp'.out.kind = "raise")
       => /\ resp'.out.msg \in InvalidCodeMsgs
             => /\ resp'.status = 401 /\ resp'.kind = "InvalidMfaCode"
                /\ pending_mfa' = pending_mfa
                /\ Has(pending_mfa', resp'.user)
                /\ sessions' = sessions
                /\ tokens' = tokens
          /\ resp'.out.msg \in RateLimitMsgs
             => /\ resp'.status = 429 /\ resp'.kind = "RateLimited"
                /\ pending_mfa' = Del(pending_mfa, resp'.user)
                /\ sessions' = sessions
                /\ tokens' = tokens]_vars

\* C5 witness: an invalid code was answered and the entry is still there,
\* with the age it had.
C5_Witness ==
    /\ Ran("mfa") /\ resp.out.kind = "raise"
    /\ resp.out.msg \in InvalidCodeMsgs
    /\ Has(pending_mfa, resp.user)
    /\ resp.age = MFA_TTL - 1

\* C6: a login for a user whose token file exists ends Authenticated with a
\* session and without a call of client.login().
C6_LoginReusesToken ==
    (Ran("login") /\ resp.hadToken)
    => /\ resp.kind = "Authenticated"
       /\ Has(sessions, resp.user)
       /\ "login" \notin resp.remote

\* C7 as stated: logout answers success and leaves its user no session, no
\* pending entry and no token file.
C7_LogoutRemovesAll ==
    Ran("logout")
    => /\ resp.status = 200
       /\ ~Has(sessions, resp.user)
       /\ ~Has(pending_mfa, resp.user)
       /\ get_token_path(resp.user) \notin tokens

\* C7 amended: logout answers success from every state and leaves its user
\* no session and no pending entry, and no token file unless unlink raised;
\* and a logout of a user who has none of the three changes nothing.
C7_LogoutIdempotent ==
    [][(resp'.op = "logout" /\ resp'.kind # "InvalidApiKey")
       => LET u == resp'.user
          IN  /\ resp'.status = 200
              /\ sessions' = Del(sessions, u)
              /\ pending_mfa' = Del(pending_mfa, u)
              /\ tokens' = IF "unlink" \in resp'.swallowed
                           THEN tokens
                           ELSE tokens \ {get_token_path(u)}
              /\ (/\ ~Has(sessions, u) /\ ~Has(pending_mfa, u)
                  /\ get_token_path(u) \notin tokens)
                 => /\ sessions' = sessions
                    /\ pending_mfa' = pending_mfa
                    /\ tokens' = tokens]_vars

\* C7 witness: a logout removed the session and the token file of a user.
C7_Witness ==
    /\ Ran("logout") /\ resp.hadSession /\ resp.hadToken
    /\ ~Has(sessions, resp.user)
    /\ get_token_path(resp.user) \notin tokens

\* C8 as stated: a logout of a user with no session and no pending entry
\* answers success and leaves the set of token files as it was.
C8_LogoutDeletesNoFile ==
    [][(/\ resp'.op = "logout" /\ resp'.kind # "InvalidApiKey"
        /\ ~Has(sessions, resp'.user) /\ ~Has(pending_mfa, resp'.user))
       => /\ resp'.status = 200
          /\ tokens' = tokens]_vars

\* C8 amended: a logout of a user with no session and no pending entry
\* answers success, changes neither store and deletes no token file of
\* another user; the user's own token file, if one is left, is deleted
\* unless unlink raised.
C8_LogoutDeletesOwnFileOnly ==
    [][(/\ resp'.op = "logout" /\ resp'.kind # "InvalidApiKey"
        /\ ~Has(sessions, resp'.user) /\ ~Has(pending_mfa, resp'.user))
       => /\ resp'.status = 200
          /\ sessions' = sessions
          /\ pending_mfa' = pending_mfa
          /\ tokens' \subseteq tokens
          /\ tokens \ tokens' \subseteq {get_token_path(resp'.user)}
          /\ "unlink" \notin resp'.swallowed
             => get_token_path(resp'.user) \notin tokens']_vars

\* C8 witness: a logout of a user with no session and no pending entry
\* deleted the token file the last run of the service had left.
C8_Witness ==
    /\ Ran("logout") /\ ~resp.hadSession /\ ~resp.hadPending /\ resp.hadToken
    /\ get_token_path(resp.user) \notin tokens

\* C9: a code submitted for a user with no pending entry answers 400
\* ChallengeNotFound, and for an expired entry (older than the limit)
\* 400 ChallengeExpired with the entry removed; neither calls resume_login,
\* creates a session or writes a token file.
C9_NoPendingNoResume ==
    (Ran("mfa") /\ (~resp.hadPending \/ resp.age > MFA_TTL))
    => /\ resp.status = 400
       /\ resp.kind = IF resp.hadPending THEN "ChallengeExpired"
                      ELSE "ChallengeNotFound"
       /\ resp.remote = {}
       /\ ~Has(pending_mfa, resp.user)
       /\ Has(sessions, resp.user) = resp.hadSession
       /\ (get_token_path(resp.user) \in tokens) = resp.hadToken

\* C9 witness: a code was submitted for an expired entry.
C9_Witness ==
    Ran("mfa") /\ resp.hadPending /\ resp.age > MFA_TTL

\* C10: a fetch or sync whose client call fails because the credential is
\* no longer valid removes the session of the user and answers 401, the
\* status of an expired session.
C10_InvalidCredentialEvicts ==
    (/\ resp.op \in {"fetch", "sync"} /\ resp.out.kind = "raise"
     /\ resp.out.msg \in CredentialInvalidMsgs)
    => /\ ~Has(sessions, resp.user)
       /\ resp.status = 401


\* The operations that name a user in their path or body.
UserOps == {"login", "mfa", "mfa-status", "logout", "status", "fetch", "sync"}

\* C11: a request for user u never creates, replaces or removes the session
\* or the token file of another user v, and never removes or alters a
\* pending entry of v that the sweep's test finds unexpired.
C11_OtherUsersUntouched ==
    [][\A v \in Users :
         (resp'.op \in UserOps /\ resp'.user # v)
         => /\ Has(sessions', v) = Has(sessions, v)
            /\ Has(sessions, v) => sessions'[v] = sessions[v]
            /\ (get_token_path(v) \in tokens') = (get_token_path(v) \in tokens)
            /\ (Has(pending_mfa, v)
                /\ ~CleanupExpired(pending_mfa[v].created_at, now))
               => /\ Has(pending_mfa', v)
                  /\ pending_mfa'[v] = pending_mfa[v]]_vars

\* A login for one user stored a challenge while another user holds a
\* session, a token file and a pending entry on the last second of its TTL.
C11_Witness ==
    /\ resp.op = "login" /\ resp.kind = "MfaRequired"
    /\ \E v \in Users \ {resp.user} :
         /\ Has(sessions, v)
         /\ get_token_path(v) \in tokens
         /\ Age(pending_mfa, v, now) = CLEANUP_TTL


\* C12: get_status changes no state: the sessions, the pending entries and
\* the token files are the same before and after every status request.
C12_StatusMutatesNothing ==
    [][resp'.op = "status" => UNCHANGED <<sessions, pending_mfa, tokens>>]_vars

\* A status request was answered while an expired pending entry, which a
\* sweep would delete, is still in the store.
C12_Witness ==
    /\ Ran("status")
    /\ \E v \in Users : Age(pending_mfa, v, now) > CLEANUP_TTL


\* The StatusResponse of an authenticated user: connected, with the
\* session's email, display name and last sync.
AuthenticatedBody(s) ==
    [connected |-> TRUE, email |-> s.email, last_sync |-> s.last_sync,
     display_name |-> s.display_name]

\* C13: get_status reports connected with the session's email and display
\* name exactly when the user has a session; without a session but with a
\* token file it reports the token-on-file state, which carries no email and
\* differs from the report of every session; with neither it reports
\* connected = false.
C13_StatusReport ==
    Ran("status")
    => /\ resp.hadSession
          <=> (Has(sessions, resp.user)
               /\ resp.body = AuthenticatedBody(sessions[resp.user]))
       /\ (~resp.hadSession /\ resp.hadToken)
          => /\ resp.body.connected
             /\ resp.body.email = None
             /\ resp.body.display_name = "(Token salvato)"
             /\ \A v \in Users :
                  Has(sessions, v) => resp.body # AuthenticatedBody(sessions[v])
       /\ (~resp.hadSession /\ ~resp.hadToken)
          => resp.body = NoBody

\* A status request of a user with a token file and no session was answered
\* while another user is authenticated.
C13_Witness ==
    /\ Ran("status")
    /\ ~resp.hadSession /\ resp.hadToken
    /\ resp.body.connected
    /\ \E v \in Users : Has(sessions, v)


\* The messages of a Garmin client that cannot be reached.
UnavailableMsgs == { {"503"} }

KeyedStep(u, key) ==
    \/ \E email \in Emails : Login(u, email, key)
    \/ CompleteMfa(u, key)
    \/ MfaStatus(u, key)
    \/ Logout(u, key)
    \/ Status(u, key)
    \/ GetSwimmingActivities(u, key)
    \/ SyncActivities(u, key)

\* C15 as stated: no step that is taken without the API key (root, health,
\* or a request that verify_api_key rejected) changes the sessions, the
\* pending entries or the token files.
C15_NoKeyNoEffect ==
    [][(resp'.op \in {"root", "health"} \/ resp'.kind = "InvalidApiKey")
       => UNCHANGED <<sessions, pending_mfa, tokens>>]_vars

\* C15 amended: every request to a keyed handler with an absent or wrong
\* key is answered 401 "InvalidApiKey" with the three stores unchanged; root
\* changes nothing and reports no state; health, which takes no key, leaves
\* the sessions and the token files alone, removes exactly the expired
\* pending entries and reports only the two store sizes.
C15_KeyedOrSweepOnly ==
    [][/\ \A u \in Users, key \in Keys \ {API_SECRET_KEY} :
            KeyedStep(u, key)
            => /\ resp'.status = 401 /\ resp'.kind = "InvalidApiKey"
               /\ resp'.body = NoBody
               /\ UNCHANGED <<sessions, pending_mfa, tokens>>
       /\ resp'.op = "root"
          => /\ resp'.body = NoBody
             /\ UNCHANGED <<sessions, pending_mfa, tokens>>
       /\ resp'.op = "health"
          => /\ UNCHANGED <<sessions, tokens>>
             /\ pending_mfa' = cleanup_expired_mfa(pending_mfa, now)
             /\ resp'.body =
                  [status |-> "healthy",
                   active_sessions |-> Cardinality(DOMAIN sessions'),
                   pending_mfa |-> Cardinality(DOMAIN pending_mfa')]]_vars

\* A logout without a valid key was rejected while the user has a session
\* and a token file.
C15_Witness ==
    /\ resp.op = "logout" /\ resp.kind = "InvalidApiKey"
    /\ Has(sessions, resp.user)
    /\ get_token_path(resp.user) \in tokens


\* C16: every failure has one fixed status: an invalid key, invalid
\* credentials, an invalid MFA code and an expired session give 401; a
\* missing or expired challenge gives 400; a rate limit gives 429; an
\* unreachable provider gives 503; and 500 is given only for messages that
\* are none of these.
C16_FixedStatusPerFailure ==
    /\ resp.kind = "InvalidApiKey" => resp.status = 401
    /\ resp.kind \in {"ChallengeNotFound", "ChallengeExpired"}
       => resp.status = 400
    /\ resp.out.kind = "raise"
       => /\ resp.out.msg \in RateLimitMsgs => resp.status = 429
          /\ resp.out.msg \in UnavailableMsgs => resp.status = 503
          /\ resp.out.msg \in CredentialInvalidMsgs => resp.status = 401
          /\ (resp.op = "mfa" /\ resp.out.msg \in InvalidCodeMsgs)
             => resp.status = 401
    /\ resp.status = 500
       => /\ resp.out.kind = "raise"
          /\ resp.out.msg \notin
               RateLimitMsgs \cup UnavailableMsgs \cup CredentialInvalidMsgs


\* The entries of the pending store p that are at most 600 seconds old at t.
WithinTtl(p, t) == {v \in DOMAIN p : t - p[v].created_at <= 600}

\* C17: the sweep that health and mfa-status run removes every pending
\* entry older than 600 seconds and no other: the store afterwards holds
\* exactly the prior entries of age at most 600, each unchanged, and the
\* sessions and the token files are unchanged; the sweep at the start of
\* login does the same to the entries of all users but the one logging in.
C17_SweepExact ==
    [][/\ (resp'.op = "health" \/ (resp'.op = "mfa-status"
                                    /\ resp'.kind # "InvalidApiKey"))
          => /\ DOMAIN pending_mfa' = WithinTtl(pending_mfa, now)
             /\ \A v \in DOMAIN pending_mfa' : pending_mfa'[v] = pending_mfa[v]
             /\ UNCHANGED <<sessions, tokens>>
       /\ (resp'.op = "login" /\ resp'.kind # "InvalidApiKey")
          => /\ DOMAIN pending_mfa' \ {resp'.user}
                  = WithinTtl(pending_mfa, now) \ {resp'.user}
             /\ \A v \in DOMAIN pending_mfa' \ {resp'.user} :
                  pending_mfa'[v] = pending_mfa[v]]_vars

\* An mfa-status request found the user's entry older than the TTL and the
\* entry is gone.
C17_Witness ==
    /\ Ran("mfa-status")
    /\ resp.hadPending /\ resp.age > CLEANUP_TTL
    /\ ~Has(pending_mfa, resp.user)


\* C18: when garth.dump fails after a successful login or resume, the
\* handler still answers 200 "Authenticated" and the user's session is in
\* the store with its client; only the token file is missing: the dump
\* wrote none, so a file is there only if one was there before and, in
\* login, was not deleted.
C18_SaveFailureNonFatal ==
    (resp.op \in {"login", "mfa"} /\ "dump" \in resp.swallowed)
    => /\ resp.status = 200 /\ resp.kind = "Authenticated"
       /\ resp.out.kind = "ok"
       /\ Has(sessions, resp.user)
       /\ get_garmin_client(resp.user) # NoClient
       /\ ~Has(pending_mfa, resp.user)
       /\ get_token_path(resp.user) \in tokens
          <=> /\ resp.hadToken
              /\ resp.op = "login" => "unlink" \in resp.swallowed

\* A resume succeeded for a user without a session or a token file, the
\* dump failed, and the user has a session and no token file.
C18_Witness ==
    /\ resp.op = "mfa" /\ "dump" \in resp.swallowed
    /\ ~resp.hadSession /\ ~resp.hadToken
    /\ Has(sessions, resp.user)
    /\ get_token_path(resp.user) \notin tokens


\* User u has a pending entry that is older than the TTL.
Stale(u) == Has(pending_mfa, u) /\ now - pending_mfa[u].created_at > 600

\* C19: with no timer, while requests are answered and health probes keep
\* occurring, every pending entry that has outlived the TTL is eventually
\* absent from the store (the clock never goes back, so an entry that is
\* stale stays stale until it is deleted or replaced).
C19_StaleEventuallySwept ==
    \A u \in Users : Stale(u) ~> ~Stale(u)

\* Both users have abandoned a challenge that has outlived the TTL and no
\* request is being served.
C19_Witness ==
    /\ resp = Idle
    /\ \A u \in Users : Stale(u)


\* C20: where handlers run one at a time and deleting a token file never
\* fails, no user has a pending entry and a token file at once.
C20_PendingHasNoToken ==
    \A u \in Users :
      Has(pending_mfa, u) => get_token_path(u) \notin tokens

\* A login of a user with a token file ended in a challenge: the pending
\* entry is stored and the file is deleted.
C20_Witness ==
    /\ resp.op = "login" /\ resp.kind = "MfaRequired"
    /\ resp.hadToken
    /\ Has(pending_mfa, resp.user)
    /\ get_token_path(resp.user) \notin tokens


\* The handler in the call returns from it in this step.
CallReturns == calls # NoFlight /\ calls' = NoFlight

====
